---- MODULE Spec2Model ----
(***************************************************************************)
(* Model of the MiHSEF cog's "update_from_json" command                    *)
(* (src/update_from_json/update_from_json.py): parse the attached          *)
(* snapshot, build the preview, wait for the invoker's reaction, then      *)
(* apply roles, categories and channels to the current guild.              *)
(*                                                                         *)
(* One action is one step of the coroutine between two awaits: every call  *)
(* on the guild is a step that either succeeds (and changes the guild) or  *)
(* raises (and changes nothing).                                           *)
(***************************************************************************)
EXTENDS Integers, Sequences, FiniteSets, TLC

VARIABLES
    att,            \* kind of the message attachment (ctx.message.attachments)
    doc,            \* the parsed document `data` (json.loads)
    guild,          \* the target guild: roles, categories, channels
    guild0,         \* the guild as it was when the command was invoked
    nextId,         \* next snowflake the platform hands out
    pc,             \* position of the coroutine
    idx,            \* index of the running for-loop
    delq,           \* roles_to_delete still to be processed (role ids)
    roles_by_name,  \* name -> role id   (local of update_from_json_cmd)
    cats_by_name,   \* name -> category id
    chans_by_name,  \* name -> channel id
    results,        \* the results counters
    log,            \* every call issued on the guild, in order
    failures,       \* number of calls that raised so far
    others,         \* reactions seen that the check() predicate rejected
    msgs,           \* messages sent with ctx.send, in order
    created,        \* id of the channel created by the running iteration
    reaction        \* the reaction wait_for returned, NoReaction before

vars == <<att, doc, guild, guild0, nextId, pc, idx, delq, roles_by_name,
          cats_by_name, chans_by_name, results, log, failures, others, msgs,
          created, reaction>>

-----------------------------------------------------------------------------
(* Bounds of the model *)

MaxSnapRoles == 2      \* longest "roles" list of a document
MaxSnapChans == 1      \* longest "channels" list of a document
MaxFailures == 2       \* calls that may raise in one run
MaxOthers == 1         \* rejected reactions counted before the count saturates

-----------------------------------------------------------------------------
(* Python values *)

NoneInt == 0 - 1            \* None where an int is expected
NoneStr == "<None>"         \* None where a str is expected
PTrue == "true"             \* JSON true / Python True
PFalse == "false"           \* JSON false / Python False
PNone == "null"             \* JSON null / Python None

\* dict.get(k, default)
Get(d, k, default) == IF k \in DOMAIN d THEN d[k] ELSE default

\* `not name` for a str-or-None
Falsy(s) == s = NoneStr \/ s = ""

Range(s) == {s[k] : k \in DOMAIN s}

Digits == <<"0", "1", "2", "3", "4", "5", "6", "7", "8", "9">>

RECURSIVE IntToStr(_)
\* str(n) / f"{n}" for n >= 0
IntToStr(n) == IF n < 10 THEN Digits[n + 1]
               ELSE IntToStr(n \div 10) \o Digits[(n % 10) + 1]

GuildId == 1

\* ids in play: the target's, the source server's, and fresh ones
KnownIds == (0 .. 9) \cup (20 .. 29) \cup (30 .. 39) \cup (50 .. 59)
            \cup (100 .. 109) \cup (120 .. 129) \cup {999}

IdStrings == {IntToStr(n) : n \in KnownIds}

\* int(s): NoneInt stands for ValueError
ParseInt(s) == IF s \in IdStrings
               THEN CHOOSE n \in KnownIds : IntToStr(n) = s
               ELSE NoneInt

SubjectTypes == {"role", "member", "user"}
RawIds == IdStrings \cup {"abc"}

\* subject_key.split(":") unpacked into two names; <<>> stands for ValueError
SplitKey(key) ==
    IF \E t \in SubjectTypes, r \in RawIds : key = t \o ":" \o r
    THEN CHOOSE p \in SubjectTypes \X RawIds : key = p[1] \o ":" \o p[2]
    ELSE << >>

-----------------------------------------------------------------------------
(* Permission overwrites *)

\* the attributes a discord.PermissionOverwrite has
ValidFlags == {"send_messages", "view_channel", "manage_expressions"}

\* the names _overwrite_to_dict enumerates
permission_attrs == {"send_messages", "view_channel", "use_slash_commands"}

\* discord.PermissionOverwrite(): every flag None
EmptyPO == [f \in ValidFlags |-> PNone]

_overwrite_to_dict(perms) ==
    LET keys == {a \in permission_attrs :
                    Get(perms, a, PNone) # PNone}
    IN  [a \in keys |-> perms[a]]

\* the last value stored under key k by a sequence of <<key, value>> items
LastOf(items, k) ==
    items[CHOOSE j \in DOMAIN items :
            /\ items[j][1] = k
            /\ \A m \in DOMAIN items : items[m][1] = k => m <= j][2]

\* a JSON object, kept as its items in document order, as a dict
DictOf(items) ==
    [k \in {items[j][1] : j \in DOMAIN items} |-> LastOf(items, k)]

GetRole(g, rid) ==
    IF \E j \in DOMAIN g.roles : g.roles[j].id = rid THEN rid ELSE NoneInt

\* discord.utils.get(guild.roles, name=n): the first role of that name
FirstRoleNamed(g, n) ==
    IF \E j \in DOMAIN g.roles : g.roles[j].name = n
    THEN g.roles[CHOOSE j \in DOMAIN g.roles :
                    /\ g.roles[j].name = n
                    /\ \A m \in DOMAIN g.roles :
                          g.roles[m].name = n => j <= m].id
    ELSE NoneInt

\* ResolveSubject with a guess instead of the skip of line 110: an unknown
\* role becomes the default role
ResolveSubject_guess(g, subject_key, snapshot_roles_by_id) ==
    LET parts == SplitKey(subject_key) IN
    IF parts = << >> THEN NoneInt
    ELSE IF parts[1] # "role" THEN NoneInt
    ELSE
      LET raw_id == parts[2]
          rid == ParseInt(raw_id)
          byId == IF rid = NoneInt THEN NoneInt ELSE GetRole(g, rid)
          snap_name == IF rid # NoneInt
                       THEN Get(snapshot_roles_by_id, rid, NoneStr)
                       ELSE NoneStr
          byName == IF byId = NoneInt /\ ~Falsy(snap_name)
                    THEN FirstRoleNamed(g, snap_name) ELSE byId
      IN  IF byName = NoneInt THEN g.id ELSE byName

\* ResolveSubject without the skip of line 84: a member key is taken as the
\* id it names
ResolveSubject_members_too(g, subject_key, snapshot_roles_by_id) ==
    LET parts == SplitKey(subject_key) IN
    IF parts = << >> THEN NoneInt
    ELSE
      LET raw_id == parts[2]
          rid == ParseInt(raw_id)
          byId == IF rid = NoneInt THEN NoneInt
                  ELSE IF parts[1] # "role" THEN rid ELSE GetRole(g, rid)
          snap_name == IF rid # NoneInt
                       THEN Get(snapshot_roles_by_id, rid, NoneStr)
                       ELSE NoneStr
      IN  IF byId = NoneInt /\ ~Falsy(snap_name)
          THEN FirstRoleNamed(g, snap_name)
          ELSE byId

\* the role a subject key resolves to in guild g, NoneInt when it is skipped
ResolveSubject(g, subject_key, snapshot_roles_by_id) ==
    LET parts == SplitKey(subject_key) IN
    IF parts = << >> THEN NoneInt
    ELSE IF parts[1] # "role" THEN NoneInt
    ELSE
      LET raw_id == parts[2]
          rid == ParseInt(raw_id)
          byId == IF rid = NoneInt THEN NoneInt ELSE GetRole(g, rid)
          byDefault == IF byId = NoneInt /\ raw_id = IntToStr(g.id)
                       THEN g.id ELSE byId
          snap_name == IF rid # NoneInt
                       THEN Get(snapshot_roles_by_id, rid, NoneStr)
                       ELSE NoneStr
      IN  IF byDefault = NoneInt /\ DOMAIN snapshot_roles_by_id # {}
             /\ ~Falsy(snap_name)
          THEN FirstRoleNamed(g, snap_name)
          ELSE byDefault

\* the PermissionOverwrite built from one perms dict of the document
BuildPO(perms_dict) ==
    [f \in ValidFlags |-> Get(perms_dict, f, PNone)]

\* overwrites_json: the items of the JSON object, in order.
\* The result maps role ids to PermissionOverwrites.
_perm_overwrites_from_json(g, overwrites_json, snapshot_roles_by_id) ==
    LET res(j) == ResolveSubject(g, overwrites_json[j][1], snapshot_roles_by_id)
        kept == {j \in DOMAIN overwrites_json : res(j) # NoneInt}
        last(r) == CHOOSE j \in kept :
                      res(j) = r /\ \A m \in kept : res(m) = r => m <= j
    IN  [r \in {res(j) : j \in kept} |-> BuildPO(overwrites_json[last(r)][2])]

-----------------------------------------------------------------------------
(* The guild and the document *)

\* index of the last / first element of seq named n
LastIdx(seq, n) ==
    CHOOSE j \in DOMAIN seq :
        seq[j].name = n /\ \A m \in DOMAIN seq : seq[m].name = n => m <= j

\* {e.name: e for e in seq}, as name -> id: a later entity replaces an earlier
ByName(seq) ==
    [n \in {seq[j].name : j \in DOMAIN seq} |-> seq[LastIdx(seq, n)].id]

IsNamedChannel(c) == c.type \in {"text", "voice", "forum"}

\* _collect_current_named(guild)
_collect_current_named(g) ==
    [roles |-> ByName(g.roles),
     cats  |-> ByName(g.categories),
     chans |-> ByName(SelectSeq(g.channels, IsNamedChannel))]

RoleById(g, id) == g.roles[CHOOSE j \in DOMAIN g.roles : g.roles[j].id = id]
CatById(g, id) ==
    g.categories[CHOOSE j \in DOMAIN g.categories : g.categories[j].id = id]
ChanById(g, id) ==
    g.channels[CHOOSE j \in DOMAIN g.channels : g.channels[j].id = id]

RECURSIVE InsertByPosition(_, _)
\* insert record r into the sorted sequence s after every element whose
\* "position" is not greater (sorted() is stable)
InsertByPosition(s, r) ==
    IF s = << >> THEN <<r>>
    ELSE IF Get(s[Len(s)], "position", 0) <= Get(r, "position", 0)
         THEN Append(s, r)
         ELSE Append(InsertByPosition(SubSeq(s, 1, Len(s) - 1), r), s[Len(s)])

RECURSIVE SortedByPosition(_)
\* sorted(snapshot_roles, key=lambda r: r.get("position", 0))
SortedByPosition(s) ==
    IF s = << >> THEN << >>
    ELSE InsertByPosition(SortedByPosition(SubSeq(s, 1, Len(s) - 1)), s[Len(s)])

\* _role_position_plan, then `mapping = {role: pos for role, pos in pos_plan}`:
\* role id -> desired position, the last pair of a role winning
_role_position_plan(snapshot_roles, g, rbn) ==
    LET snap_sorted == SortedByPosition(snapshot_roles)
        used == {j \in DOMAIN snap_sorted :
                    /\ ~Falsy(Get(snap_sorted[j], "name", NoneStr))
                    /\ Get(snap_sorted[j], "name", NoneStr) \in DOMAIN rbn}
        role(j) == rbn[snap_sorted[j].name]
        last(r) == CHOOSE j \in used :
                      role(j) = r /\ \A m \in used : role(m) = r => m <= j
    IN  [r \in {role(j) : j \in used} |->
            Get(snap_sorted[last(r)], "position", RoleById(g, r).position)]

\* _resolve_parent_category: the target category id, or NoneInt
_resolve_parent_category(snap_ch, cbn, snapshot_categories_by_id) ==
    LET parent_id == Get(snap_ch, "parent_id", NoneInt)
        snap_cat_name == Get(snapshot_categories_by_id, parent_id, NoneStr)
    IN  IF parent_id = NoneInt \/ parent_id = 0 THEN NoneInt
        ELSE IF Falsy(snap_cat_name) THEN NoneInt
        ELSE Get(cbn, snap_cat_name, NoneInt)

\* data.get("roles", []) and the like
SnapRoles(d) == Get(d, "roles", << >>)
SnapCategories(d) == Get(d, "categories", << >>)
SnapChannels(d) == Get(d, "channels", << >>)

\* id -> name table of a list of records; a later record replaces an earlier.
\* Only records with an int id and a str name are entered.
IdNameTable(recs) ==
    LET ok == {j \in DOMAIN recs :
                  /\ Get(recs[j], "id", NoneInt) # NoneInt
                  /\ Get(recs[j], "name", NoneStr) # NoneStr}
        last(i) == CHOOSE j \in ok :
                      recs[j].id = i /\ \A m \in ok : recs[m].id = i => m <= j
    IN  [i \in {recs[j].id : j \in ok} |-> recs[last(i)].name]

snapshot_roles_by_id(d) == IdNameTable(SnapRoles(d))
snapshot_categories_by_id(d) == IdNameTable(SnapCategories(d))

-----------------------------------------------------------------------------
(* The preview (lines 338-390) *)

\* the update test of the preview: color, hoist, mentionable and permissions
PreviewRoleDiffers(cur, r) ==
    \/ cur.color # Get(r, "color", cur.color)
    \/ cur.hoist # Get(r, "hoist", cur.hoist)
    \/ cur.mentionable # Get(r, "mentionable", cur.mentionable)
    \/ cur.permissions # Get(r, "permissions", cur.permissions)

NameOf(r) == Get(r, "name", NoneStr)

IsRealRoleName(n) == ~Falsy(n) /\ n # "@everyone"

\* indices of the snapshot roles the preview lists under "Create Roles"
creates_roles(d, g, rbn) ==
    {j \in DOMAIN SnapRoles(d) :
        /\ IsRealRoleName(NameOf(SnapRoles(d)[j]))
        /\ NameOf(SnapRoles(d)[j]) \notin DOMAIN rbn}

\* indices of the snapshot roles the preview lists under "Update Roles"
updates_roles(d, g, rbn) ==
    {j \in DOMAIN SnapRoles(d) :
        /\ IsRealRoleName(NameOf(SnapRoles(d)[j]))
        /\ NameOf(SnapRoles(d)[j]) \in DOMAIN rbn
        /\ PreviewRoleDiffers(RoleById(g, rbn[NameOf(SnapRoles(d)[j])]),
                              SnapRoles(d)[j])}

creates_cats(d, cbn) ==
    {j \in DOMAIN SnapCategories(d) :
        NameOf(SnapCategories(d)[j]) \notin DOMAIN cbn}

creates_chans(d, chbn) ==
    {j \in DOMAIN SnapChannels(d) :
        NameOf(SnapChannels(d)[j]) \notin DOMAIN chbn}

\* c["name"] of a record without a name (KeyError), or a None in the list
\* handed to ', '.join (TypeError): the command ends with an unhandled exception
PreviewRaises(d, cbn, chbn) ==
    \/ \E j \in creates_cats(d, cbn) : NameOf(SnapCategories(d)[j]) = NoneStr
    \/ \E j \in creates_chans(d, chbn) : NameOf(SnapChannels(d)[j]) = NoneStr

\* current_overwrites of the preview: role subjects only, encoded
CurrentOverwrites(c) ==
    LET roleSubjects == {t \in DOMAIN c.overwrites : t[1] = "role"}
    IN  [k \in {"role:" \o IntToStr(t[2]) : t \in roleSubjects} |->
            _overwrite_to_dict(
                c.overwrites[CHOOSE t \in roleSubjects :
                                "role:" \o IntToStr(t[2]) = k])]

ChannelDiffers(cur, ch) ==
    \/ cur.position # Get(ch, "position", cur.position)
    \/ cur.category_id # Get(ch, "parent_id", NoneInt)
    \/ CurrentOverwrites(cur) # DictOf(Get(ch, "overwrites", << >>))

overwrite_updates(d, g, chbn) ==
    {j \in DOMAIN SnapChannels(d) :
        /\ ~Falsy(NameOf(SnapChannels(d)[j]))
        /\ NameOf(SnapChannels(d)[j]) \in DOMAIN chbn
        /\ ChannelDiffers(ChanById(g, chbn[NameOf(SnapChannels(d)[j])]),
                          SnapChannels(d)[j])}

\* desc_lines holds only "No changes detected ..."
NoChangesDetected(d, g) ==
    LET named == _collect_current_named(g) IN
    /\ creates_roles(d, g, named.roles) = {}
    /\ updates_roles(d, g, named.roles) = {}
    /\ creates_cats(d, named.cats) = {}
    /\ creates_chans(d, named.chans) = {}
    /\ overwrite_updates(d, g, named.chans) = {}

-----------------------------------------------------------------------------
(* The inputs: target guilds and documents *)

Role(id, name, position, color, hoist, mentionable, managed, permissions) ==
    [id |-> id, name |-> name, position |-> position, color |-> color,
     hoist |-> hoist, mentionable |-> mentionable, managed |-> managed,
     permissions |-> permissions]

PO(send, view) ==
    [f \in ValidFlags |->
        IF f = "send_messages" THEN send
        ELSE IF f = "view_channel" THEN view ELSE PNone]

\* roles of the target; @everyone has the guild's id and position 0
TEveryone == Role(GuildId, "@everyone", 0, 0, FALSE, FALSE, FALSE, 0)
TMod == Role(2, "Mod", 1, 0, FALSE, FALSE, FALSE, 0)
TOld == Role(3, "Old", 2, 0, FALSE, FALSE, FALSE, 0)
TOld2 == Role(4, "Old", 3, 0, FALSE, FALSE, FALSE, 0)
TBot == Role(5, "Bot", 4, 0, FALSE, FALSE, TRUE, 0)
TargetRolePool == <<TMod, TOld, TOld2, TBot>>

\* role records of a document taken on another server (ids 100..)
SMod == Role(102, "Mod", 1, 0, FALSE, FALSE, FALSE, 0)
SModColor == Role(102, "Mod", 1, 7, TRUE, FALSE, FALSE, 0)
SModPerms == Role(102, "Mod", 1, 0, FALSE, FALSE, FALSE, 8)
SBot == Role(105, "Bot", 4, 7, FALSE, FALSE, TRUE, 0)
SNew == Role(106, "New", 2, 7, TRUE, TRUE, FALSE, 0)
SEveryone == Role(100, "@everyone", 0, 0, FALSE, FALSE, FALSE, 0)
SNameless == [id |-> 107]
SnapRolePool == {SMod, SModColor, SModPerms, SBot, SNew, SEveryone, SNameless}

Category(id, name, position, overwrites) ==
    [id |-> id, name |-> name, position |-> position, overwrites |-> overwrites]

Channel(id, name, type, category_id, position, overwrites, topic) ==
    [id |-> id, name |-> name, type |-> type, category_id |-> category_id,
     position |-> position, overwrites |-> overwrites, topic |-> topic,
     nsfw |-> FALSE, slowmode_delay |-> 0]

NoOverwrites == << >>

\* categories and channels of the target
TInfo == Category(20, "Info", 0, NoOverwrites)
TInfoOw == Category(20, "Info", 0, (<<"role", 2>> :> PO(PNone, PFalse)))
TGeneral == Channel(30, "general", "text", NoneInt, 0,
                    (<<"role", 2>> :> PO(PFalse, PNone))
                        @@ (<<"member", 7>> :> PO(PTrue, PNone)), NoneStr)
TGeneralIn == Channel(31, "general", "text", 20, 0, NoOverwrites, "hi")
TStage == Channel(32, "stage", "stage", NoneInt, 1, NoOverwrites, NoneStr)
TargetChannelPool == <<TGeneral, TGeneralIn, TStage>>

\* category and channel records of a document
SnapCategory(id, name, overwrites) ==
    [id |-> id, name |-> name, position |-> 0, nsfw |-> FALSE,
     overwrites |-> overwrites]

SnapChannel(id, name, type, parent_id, overwrites, topic) ==
    [id |-> id, name |-> name, type |-> type, position |-> 0,
     parent_id |-> parent_id, overwrites |-> overwrites, nsfw |-> FALSE,
     slowmode_delay |-> 0, topic |-> topic]

OwModDeny == << <<"role:102", [send_messages |-> PFalse]>> >>
OwMixed == << <<"role:999", [send_messages |-> PTrue]>>,
              <<"member:7", [send_messages |-> PTrue]>>,
              <<"bogus", [send_messages |-> PTrue]>>,
              <<"role:2", [view_channel |-> PTrue, bogus_flag |-> PTrue]>> >>
OwUnresolved == << <<"role:999", [send_messages |-> PTrue]>> >>

SInfo == SnapCategory(120, "Info", << >>)
SInfoOw == SnapCategory(120, "Info", OwModDeny)
SnapCategoryLists == {<< >>, <<SInfo>>, <<SInfoOw>>}

SGeneral == SnapChannel(130, "general", "text", 120, OwModDeny, "hi")
SGeneralBare == SnapChannel(130, "general", "text", NoneInt, << >>, NoneStr)
SGeneralMixed == SnapChannel(130, "general", "text", NoneInt, OwMixed, NoneStr)
SGeneralLost == SnapChannel(130, "general", "text", 129, OwUnresolved, NoneStr)
SGeneralInfo == SnapChannel(130, "general", "text", 120, << >>, "hi")
SVoice == SnapChannel(131, "voice", "voice", 120, << >>, NoneStr)
SStage == SnapChannel(132, "stage", "stage", NoneInt, OwModDeny, NoneStr)
SnapChannelPool == {SGeneral, SGeneralBare, SGeneralMixed, SGeneralLost,
                    SGeneralInfo, SVoice, SStage}

RECURSIVE Pick(_, _)
\* the subsequence of seq at the indices in S
Pick(seq, S) ==
    IF seq = << >> THEN << >>
    ELSE LET rest == Pick(SubSeq(seq, 1, Len(seq) - 1), S)
         IN  IF Len(seq) \in S THEN Append(rest, seq[Len(seq)]) ELSE rest

SubSeqs(seq) == {Pick(seq, S) : S \in SUBSET DOMAIN seq}

SeqsUpTo(S, n) == UNION {[1 .. k -> S] : k \in 0 .. n}

Guild(roles, categories, channels) ==
    [id |-> GuildId, roles |-> roles, categories |-> categories,
     channels |-> channels]

Document(roles, categories, channels) ==
    [roles |-> roles, categories |-> categories, channels |-> channels]

\* d without the top-level keys in K
Without(d, K) == [k \in DOMAIN d \ K |-> d[k]]

TopLevelKeys == {"roles", "categories", "channels"}

\* rich roles, plain categories and channels
RoleInputs ==
    {<<Guild(<<TEveryone>> \o tr, <<TInfo>>, <<TGeneralIn>>),
       Document(sr, sc, << >>)>> :
        tr \in SubSeqs(TargetRolePool),
        sr \in SeqsUpTo(SnapRolePool, MaxSnapRoles),
        sc \in {<<SInfo>>}}

\* roles, categories and channels of a target: every channel lies in a
\* category the target has, every overwrite names a role the target has
TargetLayouts ==
    {<< <<TEveryone>>, << >>, << >> >>,
     << <<TEveryone>>, <<TInfo>>, <<TGeneralIn>> >>,
     << <<TEveryone, TMod>>, << >>, << >> >>,
     << <<TEveryone, TMod>>, << >>, <<TGeneral>> >>,
     << <<TEveryone, TMod>>, <<TInfo>>, <<TGeneralIn, TStage>> >>,
     << <<TEveryone, TMod>>, <<TInfoOw>>, <<TGeneral>> >>,
     << <<TEveryone, TMod>>, <<TInfoOw>>, <<TGeneralIn>> >>,
     << <<TEveryone, TMod>>, <<TInfoOw>>, <<TGeneral, TGeneralIn>> >>,
     << <<TEveryone, TMod>>, <<TInfoOw>>, <<TGeneralIn, TGeneral>> >>}

\* plain roles, rich categories and channels
ChannelInputs ==
    {<<Guild(t[1], t[2], t[3]), Document(<<SMod>>, sc, sch)>> :
        t \in TargetLayouts,
        sc \in SnapCategoryLists,
        sch \in SeqsUpTo(SnapChannelPool, MaxSnapChans)}

\* records without a name, or with an empty one
SUnnamedCategory == [id |-> 121]
SEmptyNameCategory == SnapCategory(122, "", OwModDeny)
SUnnamedChannel == [id |-> 133]
SEmptyNameChannel == SnapChannel(134, "", "text", NoneInt, OwModDeny, NoneStr)

OddInputs ==
    {<<Guild(<<TEveryone, TMod>>, <<TInfo>>, <<TGeneralIn>>),
       Document(<<SNew>>, sc, sch)>> :
        sc \in {<<SInfo>>, <<SUnnamedCategory>>, <<SEmptyNameCategory>>},
        sch \in {<< >>, <<SUnnamedChannel>>, <<SEmptyNameChannel>>}}

\* documents that lack required top-level keys
PartialInputs ==
    {<<Guild(<<TEveryone, TMod, TOld>>, <<TInfo>>, <<TGeneralIn>>),
       Without(Document(sr, <<SInfoOw>>, <<SVoice>>), K)>> :
        sr \in {<<SMod>>, <<SNew>>},
        K \in SUBSET TopLevelKeys \ {{}}}

\* a target with two roles of one name, which the document's role table and
\* overwrites refer to
SOld == Role(103, "Old", 2, 0, FALSE, FALSE, FALSE, 0)
SOldColor == Role(103, "Old", 2, 7, FALSE, FALSE, FALSE, 0)
OwOld == << <<"role:103", [view_channel |-> PFalse]>> >>
SInfoOld == SnapCategory(120, "Info", OwOld)
SGeneralOld == SnapChannel(130, "general", "text", 120, OwOld, "hi")

NamesakeInputs ==
    {<<Guild(<<TEveryone, TOld, TOld2>>, <<TInfo>>, <<TGeneralIn>>),
       Document(sr, <<SInfoOld>>, sch)>> :
        sr \in {<<SOld>>, <<SOldColor>>},
        sch \in {<< >>, <<SGeneralOld>>}}

\* a target with a category and a channel the document does not name, whose
\* overwrites refer to a role the document does not name either
TArchive == Category(21, "Archive", 1, (<<"role", 3>> :> PO(PNone, PFalse)))
TLobby == Channel(35, "lobby", "text", 21, 1,
                  (<<"role", 3>> :> PO(PFalse, PNone))
                      @@ (<<"member", 7>> :> PO(PTrue, PNone)), "hi")

BystanderInputs ==
    {<<Guild(<<TEveryone, TMod, TOld>>, <<TInfo, TArchive>>,
             <<TGeneralIn, TLobby>>),
       Document(sr, <<SInfoOw>>, sch)>> :
        sr \in {<<SMod>>, <<SMod, SOld>>},
        sch \in {<< >>, <<SGeneral>>}}

Attachments == {"none", "not_json", "unparseable", "not_object"}

InitialResults ==
    [roles_created |-> 0, roles_updated |-> 0, role_position_updates |-> 0,
     categories_created |-> 0, channels_created |-> 0, channel_updates |-> 0,
     roles_deleted |-> 0, errors |-> 0]

FirstFreshId == 50

CHECK_MARK == "check_mark"
CROSS_MARK == "cross_mark"

NoReaction == [message |-> "none", emoji |-> "none", user |-> "none"]

InitWith(inputs) ==
    /\ \/ /\ att = "object"
          /\ \E in \in inputs : guild = in[1] /\ doc = in[2]
       \/ /\ att \in Attachments
          /\ guild = Guild(<<TEveryone, TMod>>, <<TInfo>>, <<TGeneralIn>>)
          /\ doc = << >>
    /\ guild0 = guild
    /\ nextId = FirstFreshId
    /\ pc = "start"
    /\ idx = 0
    /\ delq = << >>
    /\ roles_by_name = << >>
    /\ cats_by_name = << >>
    /\ chans_by_name = << >>
    /\ results = InitialResults
    /\ log = << >>
    /\ failures = 0
    /\ others = 0
    /\ msgs = << >>
    /\ created = NoneInt
    /\ reaction = NoReaction

Init ==
    InitWith(RoleInputs \cup ChannelInputs \cup PartialInputs \cup OddInputs
             \cup NamesakeInputs \cup BystanderInputs)

-----------------------------------------------------------------------------
(* Parse and preview (lines 302-407) *)

Send(m) == msgs' = Append(msgs, m)

Invoke ==
    /\ pc = "start"
    /\ UNCHANGED <<att, doc, guild, guild0, nextId, idx, delq, results, log,
                   failures, others, created, reaction>>
    /\ CASE att = "none" ->
              /\ Send("Please attach a JSON snapshot file")
              /\ pc' = "ended"
              /\ UNCHANGED <<roles_by_name, cats_by_name, chans_by_name>>
         [] att = "not_json" ->
              /\ Send("The attachment must be a .json file")
              /\ pc' = "ended"
              /\ UNCHANGED <<roles_by_name, cats_by_name, chans_by_name>>
         [] att = "unparseable" ->
              /\ Send("Could not parse JSON")
              /\ pc' = "ended"
              /\ UNCHANGED <<roles_by_name, cats_by_name, chans_by_name>>
         [] att = "not_object" ->
              \* data.get on a list, a number, ...: AttributeError
              /\ pc' = "raised"
              /\ UNCHANGED <<msgs, roles_by_name, cats_by_name, chans_by_name>>
         [] OTHER ->
              LET named == _collect_current_named(guild) IN
              /\ roles_by_name' = named.roles
              /\ cats_by_name' = named.cats
              /\ chans_by_name' = named.chans
              /\ IF PreviewRaises(doc, named.cats, named.chans)
                 THEN pc' = "raised" /\ UNCHANGED msgs
                 ELSE IF NoChangesDetected(doc, guild)
                 THEN Send("No changes detected") /\ pc' = "ended"
                 ELSE Send("Preview") /\ pc' = "wait"

-----------------------------------------------------------------------------
(* The confirmation (lines 409-422) *)

Users == {"author", "someone_else"}
Emojis == {CHECK_MARK, CROSS_MARK, "thumbs_up"}
Messages == {"preview", "another_message"}

\* check without the test of the reacting user
check_any_user(r) ==
    /\ r.message = "preview"
    /\ r.emoji \in {CHECK_MARK, CROSS_MARK}

\* the predicate handed to wait_for
check(r) ==
    /\ r.message = "preview"
    /\ r.emoji \in {CHECK_MARK, CROSS_MARK}
    /\ r.user = "author"

ReactionAdd ==
    /\ pc = "wait"
    /\ \E r \in [message : Messages, emoji : Emojis, user : Users] :
          IF check(r)
          THEN /\ reaction' = r
               /\ others' = 0
               /\ IF r.emoji = CROSS_MARK
                  THEN /\ Send("Cancelled. No changes applied.")
                       /\ pc' = "ended"
                       /\ UNCHANGED idx
                  ELSE /\ pc' = "roles"
                       /\ idx' = 1
                       /\ UNCHANGED msgs
          ELSE /\ others < MaxOthers
               /\ others' = others + 1
               /\ UNCHANGED <<reaction, pc, idx, msgs>>
    /\ results' = InitialResults
    /\ UNCHANGED <<att, doc, guild, guild0, nextId, delq, roles_by_name,
                   cats_by_name, chans_by_name, log, failures, created>>

Timeout ==
    /\ pc = "wait"
    /\ Send("Timed out. No changes applied.")
    /\ pc' = "ended"
    /\ others' = 0
    /\ UNCHANGED <<att, doc, guild, guild0, nextId, idx, delq, roles_by_name,
                   cats_by_name, chans_by_name, results, log, failures,
                   created, reaction>>

-----------------------------------------------------------------------------
(* Calls on the guild *)

\* a call either returns (ok) or raises; at most MaxFailures calls raise
Outcomes == {ok \in BOOLEAN : ok \/ failures < MaxFailures}

Call(op, id, name, managed, ok) ==
    [op |-> op, id |-> id, name |-> name, managed |-> managed, ok |-> ok]

Issue(op, id, name, managed, ok) ==
    /\ log' = Append(log, Call(op, id, name, managed, ok))
    /\ failures' = IF ok THEN failures ELSE failures + 1

Count(key) == results' = [results EXCEPT ![key] = @ + 1]

RoleBefore(a, b) ==
    a.position < b.position \/ (a.position = b.position /\ a.id < b.id)

RECURSIVE InsertRole(_, _)
InsertRole(s, r) ==
    IF s = << >> THEN <<r>>
    ELSE IF RoleBefore(r, s[Len(s)])
         THEN Append(InsertRole(SubSeq(s, 1, Len(s) - 1), r), s[Len(s)])
         ELSE Append(s, r)

RECURSIVE SortRoles(_)
\* guild.roles is sorted by (position, id)
SortRoles(s) ==
    IF s = << >> THEN << >>
    ELSE InsertRole(SortRoles(SubSeq(s, 1, Len(s) - 1)), s[Len(s)])

\* create_role called with the name only
RolesAfterCreate_name_only(g, id, r) ==
    LET new == Role(id, NameOf(r), 1, 0, FALSE, FALSE, FALSE,
                    RoleById(g, g.id).permissions)
        shifted == [j \in DOMAIN g.roles |->
                      IF g.roles[j].position >= 1
                      THEN [g.roles[j] EXCEPT !.position = @ + 1]
                      ELSE g.roles[j]]
    IN  SortRoles(Append(shifted, new))

\* guild.create_role(name, colour, hoist, mentionable): the new role sits
\* right above @everyone and has @everyone's permissions
RolesAfterCreate(g, id, r) ==
    LET new == Role(id, NameOf(r), 1, Get(r, "color", 0),
                    Get(r, "hoist", FALSE), Get(r, "mentionable", FALSE),
                    FALSE, RoleById(g, g.id).permissions)
        shifted == [j \in DOMAIN g.roles |->
                      IF g.roles[j].position >= 1
                      THEN [g.roles[j] EXCEPT !.position = @ + 1]
                      ELSE g.roles[j]]
    IN  SortRoles(Append(shifted, new))

\* role.edit(colour, hoist, mentionable)
RolesAfterEdit(g, id, r) ==
    [j \in DOMAIN g.roles |->
        IF g.roles[j].id = id
        THEN [g.roles[j] EXCEPT
                !.color = Get(r, "color", @),
                !.hoist = Get(r, "hoist", @),
                !.mentionable = Get(r, "mentionable", @)]
        ELSE g.roles[j]]

\* the update test of the apply phase: color, hoist and mentionable
need_edit(role, r) ==
    \/ role.color # Get(r, "color", role.color)
    \/ role.hoist # Get(r, "hoist", role.hoist)
    \/ role.mentionable # Get(r, "mentionable", role.mentionable)

\* guild.edit_role_positions(positions=mapping)
RolesAfterPositions(g, mapping) ==
    SortRoles([j \in DOMAIN g.roles |->
                  IF g.roles[j].id \in DOMAIN mapping
                  THEN [g.roles[j] EXCEPT !.position = mapping[g.roles[j].id]]
                  ELSE g.roles[j]])

\* roles_to_delete without the test of the managed flag
roles_to_delete_managed_too(g, d) ==
    LET existing_roles == ByName(g.roles)
        snapshot_role_names == {NameOf(SnapRoles(d)[j]) : j \in DOMAIN SnapRoles(d)}
        first == {j \in DOMAIN g.roles :
                    \A m \in DOMAIN g.roles :
                        g.roles[m].name = g.roles[j].name => j <= m}
        chosen == {j \in first :
                    /\ g.roles[j].name \notin snapshot_role_names
                    /\ g.roles[j].name # "@everyone"}
    IN  Pick([j \in DOMAIN g.roles |-> existing_roles[g.roles[j].name]], chosen)

\* roles_to_delete (lines 482-484), as role ids in the order of the list
roles_to_delete(g, d) ==
    LET existing_roles == ByName(g.roles)
        snapshot_role_names == {NameOf(SnapRoles(d)[j]) : j \in DOMAIN SnapRoles(d)}
        first == {j \in DOMAIN g.roles :
                    \A m \in DOMAIN g.roles :
                        g.roles[m].name = g.roles[j].name => j <= m}
        chosen == {j \in first :
                    /\ g.roles[j].name \notin snapshot_role_names
                    /\ g.roles[j].name # "@everyone"
                    /\ ~RoleById(g, existing_roles[g.roles[j].name]).managed}
    IN  Pick([j \in DOMAIN g.roles |-> existing_roles[g.roles[j].name]], chosen)

DropSubject(ow, t) == [k \in DOMAIN ow \ {t} |-> ow[k]]

\* a deletion that takes the channels along whose overwrites name the role
GuildAfterDelete_with_channels(g, id) ==
    [g EXCEPT
        !.roles = SelectSeq(g.roles, LAMBDA r : r.id # id),
        !.categories = [j \in DOMAIN g.categories |->
            [g.categories[j] EXCEPT !.overwrites = DropSubject(@, <<"role", id>>)]],
        !.channels = SelectSeq(g.channels,
                        LAMBDA c : <<"role", id>> \notin DOMAIN c.overwrites)]

\* role.delete(): the role and the overwrites that name it are gone
GuildAfterDelete(g, id) ==
    [g EXCEPT
        !.roles = SelectSeq(g.roles, LAMBDA r : r.id # id),
        !.categories = [j \in DOMAIN g.categories |->
            [g.categories[j] EXCEPT !.overwrites = DropSubject(@, <<"role", id>>)]],
        !.channels = [j \in DOMAIN g.channels |->
            [g.channels[j] EXCEPT !.overwrites = DropSubject(@, <<"role", id>>)]]]

-----------------------------------------------------------------------------
(* Apply, 1: roles (lines 436-493) *)

\* the channel block placed before the category block
PhaseAfterChannelsFirst(phase) ==
    CASE phase = "roles" -> "chans"
      [] phase = "channels" -> "cats_create"
      [] phase = "categories" -> "summary"

\* the role block entered again once it is through
PhaseAfterRolesAgain(phase) ==
    CASE phase = "roles" -> "roles"
      [] phase = "categories" -> "chans"
      [] phase = "channels" -> "summary"

\* the three try blocks of the apply phase follow one another:
\* roles (436), categories (495), channels (527), then the summary (608).
\* The position at which the run goes on once `phase` is over.
PhaseAfter(phase) ==
    CASE phase = "roles" -> "cats_create"
      [] phase = "categories" -> "chans"
      [] phase = "channels" -> "summary"

\* the except of the role phase passing instead of counting
AbortRolePhaseUncounted ==
    /\ UNCHANGED results
    /\ pc' = "cats_create"
    /\ idx' = 1

\* the exception of the role phase leaving the command
AbortRolePhasePropagates ==
    /\ UNCHANGED results
    /\ pc' = "raised"
    /\ idx' = 1

\* the role phase going on with the reposition after a failed call
AbortRolePhaseGoesOn ==
    /\ results' = [results EXCEPT !.errors = @ + 1]
    /\ pc' = "positions"
    /\ UNCHANGED idx

\* except Exception of the role phase: count one error, go on with categories
AbortRolePhase ==
    /\ results' = [results EXCEPT !.errors = @ + 1]
    /\ pc' = PhaseAfter("roles")
    /\ idx' = 1

RoleStep ==
    /\ pc = "roles"
    /\ UNCHANGED <<att, doc, guild0, delq, cats_by_name, chans_by_name,
                   others, msgs, created, reaction>>
    /\ IF idx > Len(SnapRoles(doc))
       THEN /\ pc' = "positions"
            /\ UNCHANGED <<guild, nextId, idx, roles_by_name, results, log,
                           failures>>
       ELSE
         LET r == SnapRoles(doc)[idx]
             name == NameOf(r)
         IN
         IF ~IsRealRoleName(name)
         THEN /\ idx' = idx + 1
              /\ UNCHANGED <<guild, nextId, pc, roles_by_name, results, log,
                             failures>>
         ELSE IF name \notin DOMAIN roles_by_name
         THEN \E ok \in Outcomes :
                /\ Issue("create_role", nextId, name,
                         Get(r, "managed", FALSE), ok)
                /\ IF ok
                   THEN /\ guild' = [guild EXCEPT
                                !.roles = RolesAfterCreate(guild, nextId, r)]
                        /\ nextId' = nextId + 1
                        /\ roles_by_name' = (name :> nextId) @@ roles_by_name
                        /\ Count("roles_created")
                        /\ idx' = idx + 1
                        /\ UNCHANGED pc
                   ELSE /\ AbortRolePhase
                        /\ UNCHANGED <<guild, nextId, roles_by_name>>
         ELSE
           LET role == RoleById(guild, roles_by_name[name]) IN
           IF need_edit(role, r)
           THEN \E ok \in Outcomes :
                  /\ Issue("edit_role", role.id, name, role.managed, ok)
                  /\ IF ok
                     THEN /\ guild' = [guild EXCEPT
                                  !.roles = RolesAfterEdit(guild, role.id, r)]
                          /\ Count("roles_updated")
                          /\ idx' = idx + 1
                          /\ UNCHANGED <<nextId, pc, roles_by_name>>
                     ELSE /\ AbortRolePhase
                          /\ UNCHANGED <<guild, nextId, roles_by_name>>
           ELSE /\ idx' = idx + 1
                /\ UNCHANGED <<guild, nextId, pc, roles_by_name, results, log,
                               failures>>

\* lines 469-484: re-read the roles, reposition them (best effort), then
\* select the roles to delete
RolePositions ==
    /\ pc = "positions"
    /\ UNCHANGED <<att, doc, guild0, nextId, idx, cats_by_name, chans_by_name,
                   others, msgs, created, reaction>>
    /\ LET rbn == _collect_current_named(guild).roles
           mapping == _role_position_plan(SnapRoles(doc), guild, rbn)
       IN
       /\ roles_by_name' = rbn
       /\ IF DOMAIN mapping # {}
          THEN \E ok \in Outcomes :
                 /\ Issue("edit_role_positions", NoneInt, "", FALSE, ok)
                 /\ IF ok
                    THEN /\ guild' = [guild EXCEPT
                                !.roles = RolesAfterPositions(guild, mapping)]
                         /\ results' = [results EXCEPT
                                !.role_position_updates =
                                    Cardinality(DOMAIN mapping)]
                    ELSE UNCHANGED <<guild, results>>
          ELSE UNCHANGED <<guild, results, log, failures>>
       /\ delq' = roles_to_delete(guild', doc)
       /\ pc' = "delete"

RoleDelete ==
    /\ pc = "delete"
    /\ UNCHANGED <<att, doc, guild0, nextId, roles_by_name, cats_by_name,
                   chans_by_name, others, msgs, created, reaction>>
    /\ IF delq = << >>
       THEN /\ pc' = PhaseAfter("roles")
            /\ idx' = 1
            /\ UNCHANGED <<guild, delq, results, log, failures>>
       ELSE
         LET role == RoleById(guild, Head(delq)) IN
         \E ok \in Outcomes :
           /\ Issue("delete_role", role.id, role.name, role.managed, ok)
           /\ IF ok
              THEN /\ guild' = GuildAfterDelete(guild, role.id)
                   /\ Count("roles_deleted")
              ELSE /\ UNCHANGED guild
                   /\ Count("errors")
           /\ delq' = Tail(delq)
           /\ UNCHANGED <<pc, idx>>

-----------------------------------------------------------------------------
(* Apply, 2: categories (lines 495-525) *)

\* the overwrites mapping handed to edit(overwrites=...), as the entity's
\* new overwrite set: one role subject per key
AsOverwrites(mapping) ==
    [t \in {<<"role", r>> : r \in DOMAIN mapping} |-> mapping[t[2]]]

DecodedOverwrites(rec) ==
    _perm_overwrites_from_json(guild, Get(rec, "overwrites", << >>),
                               snapshot_roles_by_id(doc))

CatCreate ==
    /\ pc = "cats_create"
    /\ UNCHANGED <<att, doc, guild0, delq, roles_by_name, chans_by_name,
                   others, msgs, created, reaction>>
    /\ IF idx > Len(SnapCategories(doc))
       THEN /\ pc' = "cats_overwrites"
            /\ idx' = 1
            /\ UNCHANGED <<guild, nextId, cats_by_name, results, log, failures>>
       ELSE
         LET name == NameOf(SnapCategories(doc)[idx]) IN
         IF Falsy(name) \/ name \in DOMAIN cats_by_name
         THEN /\ idx' = idx + 1
              /\ UNCHANGED <<guild, nextId, pc, cats_by_name, results, log,
                             failures>>
         ELSE \E ok \in Outcomes :
                /\ Issue("create_category", nextId, name, FALSE, ok)
                /\ IF ok
                   THEN /\ guild' = [guild EXCEPT !.categories =
                                Append(@, Category(nextId, name, Len(@),
                                                   NoOverwrites))]
                        /\ nextId' = nextId + 1
                        /\ cats_by_name' = (name :> nextId) @@ cats_by_name
                        /\ Count("categories_created")
                        /\ idx' = idx + 1
                        /\ UNCHANGED pc
                   ELSE \* except Exception of the category phase
                        /\ Count("errors")
                        /\ pc' = PhaseAfter("categories")
                        /\ idx' = 1
                        /\ UNCHANGED <<guild, nextId, cats_by_name>>

CatOverwrites ==
    /\ pc = "cats_overwrites"
    /\ UNCHANGED <<att, doc, guild0, nextId, delq, roles_by_name, cats_by_name,
                   chans_by_name, others, msgs, created, reaction>>
    /\ IF idx > Len(SnapCategories(doc))
       THEN /\ pc' = PhaseAfter("categories")
            /\ idx' = 1
            /\ UNCHANGED <<guild, results, log, failures>>
       ELSE
         LET c == SnapCategories(doc)[idx]
             name == NameOf(c)
             overwrites == DecodedOverwrites(c)
         IN
         /\ idx' = idx + 1
         /\ UNCHANGED pc
         /\ IF Falsy(name) \/ name \notin DOMAIN cats_by_name
               \/ DOMAIN overwrites = {}
            THEN UNCHANGED <<guild, results, log, failures>>
            ELSE \E ok \in Outcomes :
                   /\ Issue("edit_category_overwrites", cats_by_name[name],
                            name, FALSE, ok)
                   /\ IF ok
                      THEN /\ guild' = [guild EXCEPT !.categories =
                                  [j \in DOMAIN @ |->
                                      IF @[j].id = cats_by_name[name]
                                      THEN [@[j] EXCEPT !.overwrites =
                                              AsOverwrites(overwrites)]
                                      ELSE @[j]]]
                           /\ UNCHANGED results
                      ELSE /\ UNCHANGED guild
                           /\ Count("errors")

-----------------------------------------------------------------------------
(* Apply, 3: channels (lines 527-606) *)

\* channels of g with channel id replaced by f(channel)
EditChannel(g, id, f(_)) ==
    [g EXCEPT !.channels =
        [j \in DOMAIN g.channels |->
            IF g.channels[j].id = id THEN f(g.channels[j]) ELSE g.channels[j]]]

\* the kind of channel the create branch makes for a "type" of the document
CreatedType(ch_type) ==
    IF ch_type = "voice" THEN "voice"
    ELSE IF ch_type = "forum" THEN "forum" ELSE "text"

\* guild.create_*_channel(name, category): a channel made in a category
\* starts with the category's overwrites
NewChannel(g, id, name, ch_type, parent_obj) ==
    Channel(id, name, CreatedType(ch_type), parent_obj, Len(g.channels),
            IF parent_obj = NoneInt THEN NoOverwrites
            ELSE CatById(g, parent_obj).overwrites,
            NoneStr)

\* kwargs of the update branch (lines 573-585): the keys that are set
UpdateKwargs(existing, ch, parent_obj) ==
    {k \in {"category", "topic", "nsfw", "slowmode_delay"} :
        \/ /\ k = "category"
           /\ parent_obj # NoneInt
           /\ existing.category_id # parent_obj
        \/ /\ k = "topic"
           /\ existing.type = "text"
           /\ Get(ch, "topic", NoneStr) # NoneStr
           /\ (IF existing.topic = NoneStr THEN "" ELSE existing.topic)
                 # ch.topic
        \/ /\ k = "nsfw"
           /\ existing.type = "text"
           /\ "nsfw" \in DOMAIN ch
           /\ existing.nsfw # ch.nsfw
        \/ /\ k = "slowmode_delay"
           /\ existing.type = "text"
           /\ "slowmode_delay" \in DOMAIN ch
           /\ existing.slowmode_delay # ch.slowmode_delay}

\* existing.edit(**kwargs)
ApplyKwargs(c, kwargs, ch, parent_obj) ==
    [c EXCEPT
        !.category_id = IF "category" \in kwargs THEN parent_obj ELSE @,
        !.topic = IF "topic" \in kwargs THEN ch.topic ELSE @,
        !.nsfw = IF "nsfw" \in kwargs THEN ch.nsfw ELSE @,
        !.slowmode_delay =
            IF "slowmode_delay" \in kwargs THEN ch.slowmode_delay ELSE @]

ChanStep ==
    /\ pc = "chans"
    /\ UNCHANGED <<att, doc, guild0, delq, roles_by_name, cats_by_name,
                   others, msgs, reaction>>
    /\ IF idx > Len(SnapChannels(doc))
       THEN /\ pc' = PhaseAfter("channels")
            /\ idx' = 1
            /\ UNCHANGED <<guild, nextId, chans_by_name, results, log,
                           failures, created>>
       ELSE
         LET ch == SnapChannels(doc)[idx]
             name == NameOf(ch)
             ch_type == Get(ch, "type", "text")
             parent_obj == _resolve_parent_category(
                               ch, cats_by_name, snapshot_categories_by_id(doc))
         IN
         IF Falsy(name)
         THEN /\ idx' = idx + 1
              /\ UNCHANGED <<guild, nextId, pc, chans_by_name, results, log,
                             failures, created>>
         ELSE IF name \notin DOMAIN chans_by_name
         THEN \E ok \in Outcomes :
                /\ Issue("create_channel", nextId, name, FALSE, ok)
                /\ IF ok
                   THEN /\ UNCHANGED idx
                        /\ guild' = [guild EXCEPT !.channels =
                                Append(@, NewChannel(guild, nextId, name,
                                                     ch_type, parent_obj))]
                        /\ nextId' = nextId + 1
                        /\ created' = nextId
                        /\ IF CreatedType(ch_type) = "text"
                           THEN /\ pc' = "chan_topic"
                                /\ UNCHANGED <<chans_by_name, results>>
                           ELSE /\ chans_by_name' =
                                      (name :> nextId) @@ chans_by_name
                                /\ Count("channels_created")
                                /\ pc' = "chan_overwrites"
                   ELSE \* except Exception of the channel phase
                        /\ Count("errors")
                        /\ pc' = PhaseAfter("channels")
                        /\ idx' = 1
                        /\ UNCHANGED <<guild, nextId, created, chans_by_name>>
         ELSE
           LET existing == ChanById(guild, chans_by_name[name])
               kwargs == UpdateKwargs(existing, ch, parent_obj)
               edited(c) == ApplyKwargs(c, kwargs, ch, parent_obj)
           IN
           /\ pc' = "chan_overwrites"
           /\ UNCHANGED <<nextId, idx, chans_by_name, created>>
           /\ IF kwargs = {}
              THEN /\ Count("channel_updates")
                   /\ UNCHANGED <<guild, log, failures>>
              ELSE \E ok \in Outcomes :
                     /\ Issue("edit_channel", existing.id, name, FALSE, ok)
                     /\ IF ok
                        THEN /\ guild' = EditChannel(guild, existing.id, edited)
                             /\ Count("channel_updates")
                        ELSE /\ UNCHANGED guild
                             /\ Count("errors")

\* lines 552-569: the three edits that follow the creation of a text channel,
\* each in its own try whose except passes
ChanOptionalEdit ==
    /\ pc \in {"chan_topic", "chan_nsfw", "chan_slowmode"}
    /\ UNCHANGED <<att, doc, guild0, nextId, idx, delq, roles_by_name,
                   cats_by_name, others, msgs, created, reaction>>
    /\ LET ch == SnapChannels(doc)[idx]
           key == IF pc = "chan_topic" THEN "topic"
                  ELSE IF pc = "chan_nsfw" THEN "nsfw" ELSE "slowmode_delay"
           wanted == /\ key \in DOMAIN ch
                     /\ key = "topic" => ch.topic # NoneStr
           set(c) == [c EXCEPT ![key] = ch[key]]
       IN
       /\ IF wanted
          THEN \E ok \in Outcomes :
                 /\ Issue("edit_channel_" \o key, created, NameOf(ch), FALSE, ok)
                 /\ guild' = IF ok THEN EditChannel(guild, created, set)
                             ELSE guild
          ELSE UNCHANGED <<guild, log, failures>>
       /\ IF pc = "chan_slowmode"
          THEN /\ chans_by_name' = (NameOf(ch) :> created) @@ chans_by_name
               /\ Count("channels_created")
               /\ pc' = "chan_overwrites"
          ELSE /\ pc' = IF pc = "chan_topic" THEN "chan_nsfw"
                        ELSE "chan_slowmode"
               /\ UNCHANGED <<chans_by_name, results>>

ChanOverwrites ==
    /\ pc = "chan_overwrites"
    /\ UNCHANGED <<att, doc, guild0, nextId, delq, roles_by_name, cats_by_name,
                   chans_by_name, others, msgs, created, reaction>>
    /\ LET ch == SnapChannels(doc)[idx]
           name == NameOf(ch)
           overwrites == DecodedOverwrites(ch)
           replaced(c) == [c EXCEPT !.overwrites = AsOverwrites(overwrites)]
       IN
       /\ idx' = idx + 1
       /\ pc' = "chans"
       /\ IF name \notin DOMAIN chans_by_name \/ DOMAIN overwrites = {}
          THEN UNCHANGED <<guild, results, log, failures>>
          ELSE \E ok \in Outcomes :
                 /\ Issue("edit_channel_overwrites", chans_by_name[name],
                          name, FALSE, ok)
                 /\ IF ok
                    THEN /\ guild' = EditChannel(guild, chans_by_name[name],
                                                 replaced)
                         /\ UNCHANGED results
                    ELSE /\ UNCHANGED guild
                         /\ Count("errors")

-----------------------------------------------------------------------------
(* The final summary (lines 608-625) *)

Summary ==
    /\ pc = "summary"
    /\ Send("Completed")
    /\ pc' = "ended"
    /\ UNCHANGED <<att, doc, guild, guild0, nextId, idx, delq, roles_by_name,
                   cats_by_name, chans_by_name, results, log, failures, others,
                   created, reaction>>

Next ==
    \/ Invoke
    \/ ReactionAdd
    \/ Timeout
    \/ RoleStep
    \/ RolePositions
    \/ RoleDelete
    \/ CatCreate
    \/ CatOverwrites
    \/ ChanStep
    \/ ChanOptionalEdit
    \/ ChanOverwrites
    \/ Summary

Spec == Init /\ [][Next]_vars

-----------------------------------------------------------------------------
(* Properties *)

Completed == pc = "ended" /\ msgs # << >> /\ msgs[Len(msgs)] = "Completed"

Accepted ==
    reaction = [message |-> "preview", emoji |-> CHECK_MARK, user |-> "author"]

Untouched == log = << >> /\ guild = guild0

LastMessage == IF msgs = << >> THEN "" ELSE msgs[Len(msgs)]

\* C1: a call on the guild is issued only after the invoker's accept reaction
\* on the preview; while the command waits (whatever reactions were rejected),
\* after a timeout and after the invoker's cancel, no call was issued and the
\* guild is as it was.
C1_ConfirmationGate ==
    /\ (log # << >> \/ guild # guild0) => Accepted
    /\ pc = "wait" => Untouched
    /\ LastMessage \in {"Timed out. No changes applied.",
                        "Cancelled. No changes applied."} => Untouched

C1_Witness ==
    /\ Accepted
    /\ guild # guild0
    /\ \E k \in DOMAIN log : log[k].ok

SnapshotRoleNames(d) == {NameOf(SnapRoles(d)[j]) : j \in DOMAIN SnapRoles(d)}

IsProtected(r) == r.name = "@everyone" \/ r.managed

\* C2: no role named "@everyone" and no managed role is ever selected for
\* deletion or deleted: every such role of the target is still there.
C2_ProtectedRolesKept ==
    /\ \A k \in DOMAIN delq : ~IsProtected(RoleById(guild, delq[k]))
    /\ \A k \in DOMAIN log :
          log[k].op = "delete_role" =>
              log[k].name # "@everyone" /\ ~log[k].managed
    /\ \A j \in DOMAIN guild0.roles :
          IsProtected(guild0.roles[j]) =>
              \E m \in DOMAIN guild.roles : guild.roles[m].id = guild0.roles[j].id

C2_Witness ==
    /\ \E k \in DOMAIN log : log[k].op = "delete_role" /\ log[k].ok
    /\ \E j \in DOMAIN guild0.roles :
          /\ guild0.roles[j].managed
          /\ guild0.roles[j].name \notin SnapshotRoleNames(doc)
    /\ pc = "cats_create"

\* C3: no create, edit or delete call is issued for a managed role (a document
\* record with managed = true, or a target role flagged managed).
C3_NoCallOnManagedRole ==
    \A k \in DOMAIN log :
        log[k].op \in {"create_role", "edit_role", "delete_role"} =>
            ~log[k].managed

\* C4: after an apply that completed with zero errors (here: with no failed
\* call at all), the preview of the same document against the resulting guild
\* detects no changes.
C4_SecondPreviewEmpty ==
    (Completed /\ results.errors = 0 /\ failures = 0)
        => NoChangesDetected(doc, guild)

Attempted(op, name) ==
    \E k \in DOMAIN log : log[k].op = op /\ log[k].name = name

\* C5: whatever call failed, a completed run has attempted every creation the
\* plan holds: each role, category and channel the preview listed for creation.
C5_EveryPlannedCreateAttempted ==
    Completed =>
        LET named == _collect_current_named(guild0) IN
        /\ \A j \in creates_roles(doc, guild0, named.roles) :
              Attempted("create_role", NameOf(SnapRoles(doc)[j]))
        /\ \A j \in creates_cats(doc, named.cats) :
              ~Falsy(NameOf(SnapCategories(doc)[j])) =>
                  Attempted("create_category", NameOf(SnapCategories(doc)[j]))
        /\ \A j \in creates_chans(doc, named.chans) :
              ~Falsy(NameOf(SnapChannels(doc)[j])) =>
                  Attempted("create_channel", NameOf(SnapChannels(doc)[j]))

\* the calls whose failure the code passes over (lines 477-479, 556-567)
BestEffortOps ==
    {"edit_role_positions", "edit_channel_topic", "edit_channel_nsfw",
     "edit_channel_slowmode_delay"}

Failed(ops) == {k \in DOMAIN log : ~log[k].ok /\ log[k].op \in ops}

AllOps == {log[k].op : k \in DOMAIN log}

ClassOf(op) ==
    IF op \in {"create_role", "edit_role", "edit_role_positions", "delete_role"}
    THEN 1
    ELSE IF op \in {"create_category", "edit_category_overwrites"} THEN 2
    ELSE 3

MissingTopLevelKey == att = "object" /\ ~(TopLevelKeys \subseteq DOMAIN doc)

Rejected ==
    \/ pc = "raised"
    \/ pc = "ended" /\ msgs = <<"Could not parse JSON">>

\* C8: a document without one of the keys roles, categories, channels is
\* rejected: no preview is made of it and no call is issued for it.
C8_MissingKeysRejected ==
    MissingTopLevelKey => (pc = "start" \/ Rejected) /\ Untouched

\* the target roles whose name no snapshot role has, "@everyone" and the
\* managed ones left out
ExpectedDeletions(g, d) ==
    {g.roles[j].id : j \in {m \in DOMAIN g.roles :
                              /\ g.roles[m].name \notin SnapshotRoleNames(d)
                              /\ ~IsProtected(g.roles[m])}}

\* C9: when the deletion step is reached, the roles selected for deletion are
\* exactly the unprotected target roles whose name is absent from the snapshot.
C9_DeletionSetExact ==
    (pc = "delete" /\ ~\E k \in DOMAIN log : log[k].op = "delete_role")
        => Range(delq) = ExpectedDeletions(guild, doc)

\* C10: after an apply that completed with zero errors (here: with no failed
\* call at all), the target channel matched to a snapshot channel holds
\* exactly the snapshot's overwrites, resolved to target roles.
C10_OverwritesReplaced ==
    (Completed /\ results.errors = 0 /\ failures = 0) =>
        \A j \in DOMAIN SnapChannels(doc) :
            LET ch == SnapChannels(doc)[j] IN
            NameOf(ch) \in DOMAIN chans_by_name =>
                ChanById(guild, chans_by_name[NameOf(ch)]).overwrites
                    = AsOverwrites(DecodedOverwrites(ch))

-----------------------------------------------------------------------------
(* Properties of the decoding of overwrites *)

\* the records of a document that carry an "overwrites" object
OverwriteRecords(d) == Range(SnapCategories(d)) \cup Range(SnapChannels(d))

OverwriteItems(rec) == Get(rec, "overwrites", << >>)

RoleIds(g) == {g.roles[j].id : j \in DOMAIN g.roles}

RoleNames(g) == {g.roles[j].name : j \in DOMAIN g.roles}

\* key is "role:<n>" and n finds a role of g: by id, as the guild's own id,
\* or through the name the document's role table gives it
ResolvableAs(g, d, key, n) ==
    /\ key = "role:" \o IntToStr(n)
    /\ \/ n \in RoleIds(g)
       \/ n = g.id
       \/ /\ n \in DOMAIN snapshot_roles_by_id(d)
          /\ snapshot_roles_by_id(d)[n] \in RoleNames(g)

UnresolvableRoleKey(g, d, key) ==
    /\ \E n \in KnownIds : key = "role:" \o IntToStr(n)
    /\ ~\E n \in KnownIds : ResolvableAs(g, d, key, n)

\* the role of g a resolvable key stands for
ExpectedRole(g, d, key) ==
    LET n == CHOOSE m \in KnownIds : ResolvableAs(g, d, key, m) IN
    IF n \in RoleIds(g) THEN n
    ELSE IF n = g.id THEN g.id
    ELSE FirstRoleNamed(g, snapshot_roles_by_id(d)[n])

ResolvableItems(g, d, items) ==
    {j \in DOMAIN items : \E n \in KnownIds : ResolvableAs(g, d, items[j][1], n)}

\* C11: decoding an overwrite set drops the role entries that resolve to no
\* target role and keeps every resolvable role entry: the decoded set has
\* exactly the roles the resolvable entries stand for, each with the permission
\* values its (last) entry gives, and nothing for an unresolvable entry.
C11_UnresolvedDropped ==
    \A rec \in OverwriteRecords(doc) :
        LET items == OverwriteItems(rec)
            dec == DecodedOverwrites(rec)
            good == ResolvableItems(guild, doc, items)
        IN
        /\ DOMAIN dec = {ExpectedRole(guild, doc, items[j][1]) : j \in good}
        /\ \A j \in good :
              (\A m \in good : m > j =>
                  ExpectedRole(guild, doc, items[m][1])
                      # ExpectedRole(guild, doc, items[j][1]))
              => \A f \in ValidFlags :
                    dec[ExpectedRole(guild, doc, items[j][1])][f]
                        = Get(items[j][2], f, PNone)

\* a channel record with an unresolvable and a resolvable role entry was
\* applied: the channel holds the resolvable entry's overwrite only
C11_Witness ==
    /\ Completed
    /\ \E j \in DOMAIN SnapChannels(doc) :
          LET ch == SnapChannels(doc)[j]
              items == OverwriteItems(ch)
          IN
          /\ \E m \in DOMAIN items : UnresolvableRoleKey(guild, doc, items[m][1])
          /\ ResolvableItems(guild, doc, items) # {}
          /\ \E k \in DOMAIN log :
                /\ log[k].op = "edit_channel_overwrites"
                /\ log[k].ok
                /\ log[k].name = NameOf(ch)
                /\ DOMAIN ChanById(guild, log[k].id).overwrites
                      = {<<"role", ExpectedRole(guild, doc, items[n][1])>> :
                            n \in ResolvableItems(guild, doc, items)}

HasMemberEntry(d) ==
    \E rec \in OverwriteRecords(d) :
        \E j \in DOMAIN OverwriteItems(rec) :
            SplitKey(OverwriteItems(rec)[j][1]) # << >>
            /\ SplitKey(OverwriteItems(rec)[j][1])[1] # "role"

\* the entities of the guild an overwrite edit succeeded on
EditedOverwrites ==
    {CatById(guild, log[k].id).overwrites :
        k \in {m \in DOMAIN log :
                 log[m].ok /\ log[m].op = "edit_category_overwrites"}}
    \cup
    {ChanById(guild, log[k].id).overwrites :
        k \in {m \in DOMAIN log :
                 log[m].ok /\ log[m].op = "edit_channel_overwrites"}}

\* C12: a document with member-keyed (non-role) overwrite entries is applied
\* without an error of its own, and every overwrite set apply hands to an
\* edit, and every set such an edit left behind, names roles of the target
\* only.
C12_MemberEntriesIgnored ==
    /\ (HasMemberEntry(doc) /\ Completed /\ failures = 0) => results.errors = 0
    /\ (pc = "cats_overwrites" /\ idx <= Len(SnapCategories(doc))) =>
          DOMAIN DecodedOverwrites(SnapCategories(doc)[idx]) \subseteq RoleIds(guild)
    /\ pc = "chan_overwrites" =>
          DOMAIN DecodedOverwrites(SnapChannels(doc)[idx]) \subseteq RoleIds(guild)
    /\ \A ow \in EditedOverwrites :
          \A t \in DOMAIN ow : t[1] = "role" /\ t[2] \in RoleIds(guild)

C12_Witness ==
    /\ Completed
    /\ results.errors = 0
    /\ HasMemberEntry(doc)
    /\ \E k \in DOMAIN log :
          /\ log[k].op = "edit_channel_overwrites"
          /\ log[k].ok
          /\ <<"member", 7>> \in DOMAIN ChanById(guild0, log[k].id).overwrites
          /\ DOMAIN ChanById(guild, log[k].id).overwrites = {<<"role", 2>>}

-----------------------------------------------------------------------------
(* The snapshot commands: UpdateFromJSON.snapshot_now (update_from_json.py,
   lines 197-291) and MiHSEFSnapshot.snapshot_now (snapshot.py, lines 45-140).
   guild is the live server, doc the data dict under construction, idx the
   position of the running loop, msgs what ctx.send sent. *)

TVoice == Channel(33, "voice", "voice", 20, 1, (<<"role", 2>> :> PO(PNone, PTrue)),
                  NoneStr)
TForum == Channel(34, "forum", "forum", NoneInt, 2,
                  (<<"member", 7>> :> PO(PFalse, PFalse)), "rules")
TInfoMember == Category(20, "Info", 0,
                        (<<"role", 1>> :> PO(PNone, PFalse))
                            @@ (<<"member", 8>> :> PO(PTrue, PTrue)))

\* the servers a snapshot is taken of
LiveGuilds ==
    {Guild(t[1], t[2], t[3]) : t \in TargetLayouts}
    \cup {Guild(<<TEveryone>> \o tr, <<TInfoMember>>, <<TVoice, TForum>>) :
            tr \in SubSeqs(TargetRolePool)}
    \cup {Guild(<<TEveryone, TMod>>, sc, <<TGeneral, TStage, TForum>>) :
            sc \in {<< >>, <<TInfoOw>>}}

RECURSIVE SubjectsInOrder(_)
\* the subjects of an overwrites mapping, one after the other (by id)
SubjectsInOrder(S) ==
    IF S = {} THEN << >>
    ELSE LET t == CHOOSE x \in S : \A y \in S : x[2] <= y[2]
         IN  <<t>> \o SubjectsInOrder(S \ {t})

\* serialize_perms: every flag of the overwrite with its value, None included
serialize_perms(perm_overwrite) ==
    [name \in DOMAIN perm_overwrite |-> perm_overwrite[name]]

\* the overwrites dict update_from_json's snapshot builds (lines 230-233,
\* 246-249), as the items of the JSON object
snapshot_overwrites(ow) ==
    LET targets == SubjectsInOrder(DOMAIN ow) IN
    [j \in DOMAIN targets |->
        <<(IF targets[j][1] = "role" THEN "role:" ELSE "member:")
              \o IntToStr(targets[j][2]),
          _overwrite_to_dict(ow[targets[j]])>>]

\* the overwrites dict snapshot.py builds (lines 81-84, 99-102)
now_overwrites(ow) ==
    LET targets == SubjectsInOrder(DOMAIN ow) IN
    [j \in DOMAIN targets |->
        <<(IF targets[j][1] = "role" THEN "role:" ELSE "user:")
              \o IntToStr(targets[j][2]),
          serialize_perms(ow[targets[j]])>>]

\* the category record of update_from_json's snapshot (lines 234-240)
snapshot_category(c) ==
    [id |-> c.id, name |-> c.name, position |-> c.position,
     nsfw |-> Get(c, "nsfw", FALSE),
     overwrites |-> snapshot_overwrites(c.overwrites)]

\* the channel record of update_from_json's snapshot (lines 251-277)
snapshot_channel(ch) ==
    LET ch_type == IF ch.type = "voice" THEN "voice"
                   ELSE IF ch.type = "forum" THEN "forum" ELSE "text"
    IN  [id |-> ch.id, name |-> ch.name, type |-> ch_type,
         position |-> ch.position, parent_id |-> ch.category_id,
         overwrites |-> snapshot_overwrites(ch.overwrites),
         nsfw |-> IF ch_type = "voice" THEN FALSE ELSE Get(ch, "nsfw", FALSE),
         slowmode_delay |->
             IF ch_type = "voice" THEN 0 ELSE Get(ch, "slowmode_delay", 0),
         topic |-> IF ch_type = "voice" THEN NoneStr
                   ELSE Get(ch, "topic", NoneStr)]

\* the category record of snapshot.py (lines 86-92)
now_category(cat) ==
    [id |-> cat.id, name |-> cat.name, position |-> cat.position,
     nsfw |-> Get(cat, "nsfw", FALSE),
     overwrites |-> now_overwrites(cat.overwrites)]

\* the channel record of snapshot.py (lines 104-118); str(ch.type) of a stage
\* channel is "stage_voice"
now_channel(ch) ==
    [id |-> ch.id, name |-> ch.name,
     type |-> IF ch.type = "stage" THEN "stage_voice" ELSE ch.type,
     position |-> ch.position, parent_id |-> ch.category_id,
     overwrites |-> now_overwrites(ch.overwrites),
     nsfw |-> Get(ch, "nsfw", FALSE),
     slowmode_delay |-> Get(ch, "slowmode_delay", 0),
     topic |-> Get(ch, "topic", NoneStr)]

\* the data dict before the loops
EmptyData(g) ==
    [meta |-> [guild_id |-> g.id], roles |-> << >>, categories |-> << >>,
     channels |-> << >>]

CaptureIdle ==
    <<att, guild, guild0, nextId, delq, roles_by_name, cats_by_name,
      chans_by_name, results, log, failures, others, created, reaction>>

CaptureInit ==
    /\ guild \in LiveGuilds
    /\ pc \in {"snapshot", "snapshot_now"}
    /\ att = "none"
    /\ doc = << >>
    /\ guild0 = guild
    /\ nextId = FirstFreshId
    /\ idx = 0
    /\ delq = << >>
    /\ roles_by_name = << >>
    /\ cats_by_name = << >>
    /\ chans_by_name = << >>
    /\ results = InitialResults
    /\ log = << >>
    /\ failures = 0
    /\ others = 0
    /\ msgs = << >>
    /\ created = NoneInt
    /\ reaction = NoReaction

\* either command starts with the data dict that holds the meta block and
\* three empty lists
CaptureBegin ==
    /\ pc \in {"snapshot", "snapshot_now"}
    /\ doc' = EmptyData(guild)
    /\ pc' = pc \o ":roles"
    /\ idx' = 1
    /\ UNCHANGED msgs
    /\ UNCHANGED CaptureIdle

\* one iteration of a role loop (update_from_json.py 216-226, snapshot.py
\* 67-77): guild.roles is kept in the order of the positions
CaptureRole ==
    /\ pc \in {"snapshot:roles", "snapshot_now:roles"}
    /\ IF idx > Len(guild.roles)
       THEN /\ pc' = (IF pc = "snapshot:roles" THEN "snapshot:categories"
                      ELSE "snapshot_now:categories")
            /\ idx' = 1
            /\ UNCHANGED doc
       ELSE /\ doc' = [doc EXCEPT !.roles = Append(@, guild.roles[idx])]
            /\ idx' = idx + 1
            /\ UNCHANGED pc
    /\ UNCHANGED msgs
    /\ UNCHANGED CaptureIdle

\* one iteration of a category loop
CaptureCategory ==
    /\ pc \in {"snapshot:categories", "snapshot_now:categories"}
    /\ IF idx > Len(guild.categories)
       THEN /\ pc' = (IF pc = "snapshot:categories" THEN "snapshot:channels"
                      ELSE "snapshot_now:channels")
            /\ idx' = 1
            /\ UNCHANGED doc
       ELSE /\ doc' = [doc EXCEPT !.categories =
                        Append(@, IF pc = "snapshot:categories"
                                  THEN snapshot_category(guild.categories[idx])
                                  ELSE now_category(guild.categories[idx]))]
            /\ idx' = idx + 1
            /\ UNCHANGED pc
    /\ UNCHANGED msgs
    /\ UNCHANGED CaptureIdle

\* one iteration of a channel loop (guild.channels of the model holds the
\* channels that are not categories)
CaptureChannel ==
    /\ pc \in {"snapshot:channels", "snapshot_now:channels"}
    /\ IF idx > Len(guild.channels)
       THEN /\ pc' = (IF pc = "snapshot:channels" THEN "snapshot:save"
                      ELSE "snapshot_now:save")
            /\ idx' = 1
            /\ UNCHANGED doc
       ELSE /\ doc' = [doc EXCEPT !.channels =
                        Append(@, IF pc = "snapshot:channels"
                                  THEN snapshot_channel(guild.channels[idx])
                                  ELSE now_channel(guild.channels[idx]))]
            /\ idx' = idx + 1
            /\ UNCHANGED pc
    /\ UNCHANGED msgs
    /\ UNCHANGED CaptureIdle

\* the file is written and sent; update_from_json's command falls back to a
\* plain message when the upload raises
CaptureSave ==
    /\ pc \in {"snapshot:save", "snapshot_now:save"}
    /\ \E uploaded \in BOOLEAN :
          IF pc = "snapshot:save"
          THEN /\ Send(IF uploaded THEN "Snapshot saved"
                       ELSE "Snapshot saved (upload failed)")
               /\ pc' = "ended"
          ELSE IF uploaded
               THEN Send("Snapshot saved locally") /\ pc' = "ended"
               ELSE pc' = "raised" /\ UNCHANGED msgs
    /\ UNCHANGED <<doc, idx>>
    /\ UNCHANGED CaptureIdle

CaptureNext ==
    \/ CaptureBegin
    \/ CaptureRole
    \/ CaptureCategory
    \/ CaptureChannel
    \/ CaptureSave

CaptureSpec == CaptureInit /\ [][CaptureNext]_vars

\* the overwrite sets of the live server, each with the items written for it
CapturedPairs ==
    {<<guild.categories[j].overwrites, doc.categories[j].overwrites>> :
        j \in DOMAIN SnapCategories(doc)}
    \cup
    {<<guild.channels[j].overwrites, doc.channels[j].overwrites>> :
        j \in DOMAIN SnapChannels(doc)}

\* C13: every key of every overwrites mapping of a document a snapshot
\* command builds has the form role:<id>.
C13_NoMemberKeyCaptured ==
    \A rec \in OverwriteRecords(doc) :
        \A j \in DOMAIN OverwriteItems(rec) :
            \E n \in KnownIds : OverwriteItems(rec)[j][1] = "role:" \o IntToStr(n)

\* C14: the record written for an overwrite has a key exactly for the
\* permissions with an explicit value, none of them null, and decoding it
\* gives back the overwrite.
C14_EncodedOnlyExplicit ==
    \A p \in CapturedPairs :
        LET targets == SubjectsInOrder(DOMAIN p[1]) IN
        \A j \in DOMAIN p[2] :
            LET o == p[1][targets[j]]
                enc == p[2][j][2]
            IN  /\ \A f \in DOMAIN enc : enc[f] # PNone
                /\ DOMAIN enc = {f \in DOMAIN o : o[f] # PNone}
                /\ BuildPO(enc) = o

-----------------------------------------------------------------------------
(* Properties of the plan *)

Previewed == att = "object" /\ pc \notin {"start", "raised"}

NamedIdx(recs) == {j \in DOMAIN recs : ~Falsy(NameOf(recs[j]))}

SameLook(cur, r) ==
    /\ cur.color = Get(r, "color", cur.color)
    /\ cur.hoist = Get(r, "hoist", cur.hoist)
    /\ cur.mentionable = Get(r, "mentionable", cur.mentionable)

\* the channels of g named as the snapshot channel ch
Namesakes(g, ch) ==
    {j \in DOMAIN g.channels : g.channels[j].name = NameOf(ch)}

\* channel c of g matches the snapshot channel ch: rank, resolved parent and
\* resolved overwrite set
ChannelMatches(g, d, c, ch) ==
    /\ c.position = Get(ch, "position", c.position)
    /\ c.category_id = _resolve_parent_category(
                          ch, ByName(g.categories), snapshot_categories_by_id(d))
    /\ c.overwrites = AsOverwrites(_perm_overwrites_from_json(
                          g, OverwriteItems(ch), snapshot_roles_by_id(d)))

\* every entity of document d matches guild g by the planner's criteria
EverythingMatches(d, g) ==
    /\ \A j \in NamedIdx(SnapRoles(d)) :
          /\ NameOf(SnapRoles(d)[j]) \in RoleNames(g)
          /\ \A m \in DOMAIN g.roles :
                g.roles[m].name = NameOf(SnapRoles(d)[j])
                    => SameLook(g.roles[m], SnapRoles(d)[j])
    /\ \A j \in DOMAIN SnapCategories(d) :
          \E m \in DOMAIN g.categories :
              g.categories[m].name = NameOf(SnapCategories(d)[j])
    /\ \A j \in DOMAIN SnapChannels(d) :
          /\ Namesakes(g, SnapChannels(d)[j]) # {}
          /\ \A m \in Namesakes(g, SnapChannels(d)[j]) :
                ChannelMatches(g, d, g.channels[m], SnapChannels(d)[j])

\* C15: when every entity of the document matches the target by the
\* planner's criteria, the command answers "no changes".
C15_MatchingPlanEmpty ==
    (Previewed /\ EverythingMatches(doc, guild0))
        => msgs[1] = "No changes detected"

\* names of the roles the preview lists under "Update Roles"
PreviewedUpdates ==
    {NameOf(SnapRoles(doc)[j]) :
        j \in updates_roles(doc, guild0, _collect_current_named(guild0).roles)}

\* names of the roles apply edited
EditedRoles == {log[k].name : k \in {m \in DOMAIN log : log[m].op = "edit_role"}}

\* C16: a snapshot role whose same-named target role has equal color, hoist
\* and mentionable is not listed as an update, and after a failure-free run
\* the roles listed as updates are the roles apply edited.
C16_UpdateDetection ==
    Previewed =>
        /\ \A j \in updates_roles(doc, guild0,
                                  _collect_current_named(guild0).roles) :
              ~SameLook(RoleById(guild0,
                            _collect_current_named(guild0).roles[
                                NameOf(SnapRoles(doc)[j])]),
                        SnapRoles(doc)[j])
        /\ (Completed /\ failures = 0) => PreviewedUpdates = EditedRoles

-----------------------------------------------------------------------------
(* Properties of the apply phase *)

RoleOps == {"create_role", "edit_role", "edit_role_positions", "delete_role"}

\* the rank of a role call in create, update, reposition, delete
StrictRoleRank(op) ==
    CASE op = "create_role" -> 1
      [] op = "edit_role" -> 2
      [] op = "edit_role_positions" -> 3
      [] op = "delete_role" -> 4

\* the rank of a role call when creations and updates form one pass
RoleRank(op) ==
    CASE op \in {"create_role", "edit_role"} -> 1
      [] op = "edit_role_positions" -> 2
      [] op = "delete_role" -> 3

RoleCalls == {k \in DOMAIN log : log[k].op \in RoleOps}

\* C17 (as claimed): the role calls are issued in the order creations,
\* property updates, reposition, deletions.
C17_StrictRoleOrder ==
    \A j, k \in RoleCalls :
        j < k => StrictRoleRank(log[j].op) <= StrictRoleRank(log[k].op)

\* C17 (amended): creations and property updates are issued in one pass, in
\* the order of the document's roles; every one of them precedes the
\* reposition call, of which there is at most one, and every deletion follows
\* the reposition call and every creation and update.
C17_RoleOrder ==
    /\ \A j, k \in RoleCalls :
          j < k => RoleRank(log[j].op) <= RoleRank(log[k].op)
    /\ Cardinality({k \in RoleCalls : log[k].op = "edit_role_positions"}) <= 1

C17_Witness ==
    /\ pc = "cats_create"
    /\ \E e, c, p, d \in DOMAIN log :
          /\ e < c /\ c < p /\ p < d
          /\ log[e].op = "edit_role" /\ log[e].ok
          /\ log[c].op = "create_role" /\ log[c].ok
          /\ log[p].op = "edit_role_positions" /\ log[p].ok
          /\ log[d].op = "delete_role" /\ log[d].ok

\* the snapshot channels whose parent category cannot be resolved
UnresolvedParent(d, g, ch) ==
    \/ Get(ch, "parent_id", NoneInt) = NoneInt
    \/ Get(ch, "parent_id", NoneInt) \notin DOMAIN snapshot_categories_by_id(d)
    \/ snapshot_categories_by_id(d)[ch.parent_id]
          \notin {g.categories[m].name : m \in DOMAIN g.categories}

FailureFree == Completed /\ failures = 0

\* C18: after a failure-free apply a snapshot channel whose parent category
\* cannot be resolved is a top-level channel of the target, created or not,
\* and no error was counted.
C18_UnresolvedParentTopLevel ==
    FailureFree =>
        \A j \in NamedIdx(SnapChannels(doc)) :
            LET ch == SnapChannels(doc)[j] IN
            UnresolvedParent(doc, guild, ch) =>
                /\ results.errors = 0
                /\ NameOf(ch) \in DOMAIN chans_by_name
                /\ ChanById(guild, chans_by_name[NameOf(ch)]).category_id
                      = NoneInt

\* C19: a named snapshot channel is listed for creation, and created, exactly
\* when the target has no channel of its name, whatever the kinds of the
\* target's channels.
C19_CreateIffNoNamesake ==
    /\ Previewed =>
          \A j \in NamedIdx(SnapChannels(doc)) :
              (j \in creates_chans(doc, _collect_current_named(guild0).chans))
                  <=> Namesakes(guild0, SnapChannels(doc)[j]) = {}
    /\ FailureFree =>
          \A j \in NamedIdx(SnapChannels(doc)) :
              LET ch == SnapChannels(doc)[j] IN
              /\ Attempted("create_channel", NameOf(ch))
                    <=> Namesakes(guild0, ch) = {}
              /\ Namesakes(guild0, ch) # {} =>
                    Cardinality(Namesakes(guild, ch))
                        = Cardinality(Namesakes(guild0, ch))

\* the last record of the document's roles named n
LastSnapRole(d, n) ==
    SnapRoles(d)[CHOOSE j \in NamedIdx(SnapRoles(d)) :
                    /\ NameOf(SnapRoles(d)[j]) = n
                    /\ \A m \in NamedIdx(SnapRoles(d)) :
                          NameOf(SnapRoles(d)[m]) = n => m <= j]

\* the snapshot roles that have to be created
MissingRoles(d, g) ==
    {j \in DOMAIN SnapRoles(d) :
        /\ IsRealRoleName(NameOf(SnapRoles(d)[j]))
        /\ NameOf(SnapRoles(d)[j]) \notin RoleNames(g)}

\* C20: a named snapshot role other than "@everyone" without a namesake in
\* the target is listed for creation, and after a failure-free apply the
\* target has exactly one role of its name, with the color, hoist and
\* mentionable values the document gives that name (the last record's when
\* the name occurs more than once).
C20_RoleCreatedOnce ==
    /\ Previewed =>
          MissingRoles(doc, guild0)
              \subseteq creates_roles(doc, guild0,
                                      _collect_current_named(guild0).roles)
    /\ FailureFree =>
          \A j \in MissingRoles(doc, guild0) :
              LET n == NameOf(SnapRoles(doc)[j])
                  r == LastSnapRole(doc, n)
                  same == {m \in DOMAIN guild.roles : guild.roles[m].name = n}
              IN  /\ Cardinality(same) = 1
                  /\ \A m \in same :
                        /\ guild.roles[m].color = Get(r, "color", 0)
                        /\ guild.roles[m].hoist = Get(r, "hoist", FALSE)
                        /\ guild.roles[m].mentionable
                              = Get(r, "mentionable", FALSE)

\* the document lists a missing role twice, with different colors
C20_Witness ==
    /\ FailureFree
    /\ \E j, k \in MissingRoles(doc, guild0) :
          /\ j < k
          /\ NameOf(SnapRoles(doc)[j]) = NameOf(SnapRoles(doc)[k])
          /\ SnapRoles(doc)[j].color # SnapRoles(doc)[k].color
          /\ \E m \in DOMAIN guild.roles :
                /\ guild.roles[m].name = NameOf(SnapRoles(doc)[k])
                /\ guild.roles[m].color = SnapRoles(doc)[k].color

-----------------------------------------------------------------------------
(* Termination of the apply phase *)

\* the steps of the apply phase and the summary: each is a piece of the one
\* coroutine, which goes on as soon as the awaited call returns or raises
Apply ==
    \/ RoleStep
    \/ RolePositions
    \/ RoleDelete
    \/ CatCreate
    \/ CatOverwrites
    \/ ChanStep
    \/ ChanOptionalEdit
    \/ ChanOverwrites
    \/ Summary

\* targets and documents whose runs pass through every step of the three
\* phases
LiveInputs ==
    {<<Guild(<<TEveryone, TMod, TOld>>, <<TInfo>>, <<TGeneral>>),
       Document(<<SModColor, SNew>>, <<SInfo>>, <<SGeneralInfo>>)>>,
     <<Guild(<<TEveryone>>, << >>, << >>),
       Document(<<SMod>>, <<SInfo>>, <<SGeneralInfo>>)>>,
     <<Guild(<<TEveryone, TMod>>, <<TInfo>>, <<TGeneralIn>>),
       Document(<<SModColor>>, <<SInfoOw>>, << >>)>>,
     <<Guild(<<TEveryone, TMod>>, <<TInfo>>, <<TGeneralIn>>),
       Document(<<SMod>>, <<SInfo>>, <<SGeneral>>)>>}

LiveInit == InitWith(LiveInputs)

LiveSpec == LiveInit /\ [][Next]_vars /\ WF_vars(Apply)

\* C21: once the invoker has accepted, the run reaches the final summary,
\* whichever calls fail; it never ends in an unhandled exception, which
\* would leave the summary unsent for good.
C21_SummaryReached == Accepted ~> Completed

\* the summary was sent after failed calls in the role phase and after it
C21_Witness ==
    /\ Completed
    /\ \E j, k \in DOMAIN log :
          /\ ~log[j].ok /\ ClassOf(log[j].op) = 1
          /\ ~log[k].ok /\ ClassOf(log[k].op) > 1

-----------------------------------------------------------------------------
(* Properties of name matching and of the frame of apply *)

AfterRolePhase ==
    pc \in {"cats_create", "cats_overwrites", "chans", "chan_topic",
            "chan_nsfw", "chan_slowmode", "chan_overwrites", "summary"}

\* C22: in one run a name stands for one entity: the role the role phase
\* matched to a name is the role an overwrite key resolved through that name
\* gets, and the channel the preview compared is the channel apply edits.
C22_OneMatchPerName ==
    /\ AfterRolePhase =>
          \A rec \in OverwriteRecords(doc) :
              \A j \in DOMAIN OverwriteItems(rec) :
                  \A n \in DOMAIN snapshot_roles_by_id(doc) :
                      LET key == OverwriteItems(rec)[j][1]
                          nm == snapshot_roles_by_id(doc)[n]
                      IN  (/\ key = "role:" \o IntToStr(n)
                           /\ n \notin RoleIds(guild)
                           /\ n # guild.id
                           /\ nm \in DOMAIN roles_by_name
                           /\ nm \in RoleNames(guild))
                          => ResolveSubject(guild, key, snapshot_roles_by_id(doc))
                                = roles_by_name[nm]
    /\ \A k \in DOMAIN log :
          (/\ log[k].op \in {"edit_channel", "edit_channel_overwrites"}
           /\ log[k].name \in DOMAIN _collect_current_named(guild0).chans)
          => log[k].id = _collect_current_named(guild0).chans[log[k].name]

\* the categories / channels of g0 that no snapshot entry names
Bystanders(seq, recs) ==
    {j \in DOMAIN seq : seq[j].name \notin {NameOf(recs[m]) : m \in DOMAIN recs}}

\* entity e of the initial target is in seq as it was
KeptAsIs(seq, e) == \E m \in DOMAIN seq : seq[m] = e

\* entity e is in seq as it was, but for the overwrites of deleted roles
KeptButForDeletedRoles(seq, e, g) ==
    \E m \in DOMAIN seq :
        seq[m] = [e EXCEPT !.overwrites =
                    [t \in {u \in DOMAIN @ :
                              u[1] = "role" => u[2] \in RoleIds(g)} |-> @[t]]]

\* C24 (as claimed): every category and channel of the target that no
\* snapshot entry names is still there, with the properties, parent and
\* overwrite set it had.
C24_BystandersUnchanged ==
    /\ \A j \in Bystanders(guild0.categories, SnapCategories(doc)) :
          KeptAsIs(guild.categories, guild0.categories[j])
    /\ \A j \in Bystanders(guild0.channels, SnapChannels(doc)) :
          KeptAsIs(guild.channels, guild0.channels[j])

\* C24 (amended): no category and no channel is ever deleted, and those no
\* snapshot entry names keep their properties, their parent and their
\* overwrite set but for the overwrites of the roles apply deleted, which go
\* with the role.
C24_BystandersKept ==
    /\ \A j \in DOMAIN guild0.categories :
          \E m \in DOMAIN guild.categories :
              guild.categories[m].id = guild0.categories[j].id
    /\ \A j \in DOMAIN guild0.channels :
          \E m \in DOMAIN guild.channels :
              guild.channels[m].id = guild0.channels[j].id
    /\ \A j \in Bystanders(guild0.categories, SnapCategories(doc)) :
          KeptButForDeletedRoles(guild.categories, guild0.categories[j], guild)
    /\ \A j \in Bystanders(guild0.channels, SnapChannels(doc)) :
          KeptButForDeletedRoles(guild.channels, guild0.channels[j], guild)

\* a role was deleted and other entities were created and edited, next to a
\* channel the document does not name
C24_Witness ==
    /\ Completed
    /\ \E k \in DOMAIN log : log[k].op = "delete_role" /\ log[k].ok
    /\ \E k \in DOMAIN log : log[k].op = "edit_channel_overwrites" /\ log[k].ok
    /\ \E j \in Bystanders(guild0.channels, SnapChannels(doc)) :
          /\ guild0.channels[j].overwrites # NoOverwrites
          /\ ~KeptAsIs(guild.channels, guild0.channels[j])

-----------------------------------------------------------------------------
(* Properties of the preview against apply, and of the counters *)

\* the roles the deletion step of apply would delete
WouldDeleteRoles == roles_to_delete(guild, doc)

\* the categories of the document whose overwrite set apply would replace
\* with a different one
WouldReplaceCategoryOverwrites ==
    {j \in DOMAIN SnapCategories(doc) :
        LET c == SnapCategories(doc)[j]
            name == NameOf(c)
        IN  /\ ~Falsy(name)
            /\ name \in DOMAIN cats_by_name
            /\ DOMAIN DecodedOverwrites(c) # {}
            /\ CatById(guild, cats_by_name[name]).overwrites
                  # AsOverwrites(DecodedOverwrites(c))}

\* the channels of the document on which apply would issue a property edit
WouldEditChannels ==
    {j \in DOMAIN SnapChannels(doc) :
        LET ch == SnapChannels(doc)[j]
            name == NameOf(ch)
        IN  /\ ~Falsy(name)
            /\ name \in DOMAIN chans_by_name
            /\ UpdateKwargs(ChanById(guild, chans_by_name[name]), ch,
                            _resolve_parent_category(
                                ch, cats_by_name,
                                snapshot_categories_by_id(doc))) # {}}

\* C23: when the preview reports "No changes detected", a confirmed apply
\* would issue no state-changing call: it would delete no role, replace no
\* category's overwrite set with a different one and edit no channel.
C23_PreviewComplete ==
    LastMessage = "No changes detected"
    => /\ WouldDeleteRoles = << >>
       /\ WouldReplaceCategoryOverwrites = {}
       /\ WouldEditChannels = {}

\* the two cases the claim names, each alone
C23_NoDeletionUnseen ==
    LastMessage = "No changes detected" => WouldDeleteRoles = << >>

C23_NoCategoryOverwritesUnseen ==
    LastMessage = "No changes detected" => WouldReplaceCategoryOverwrites = {}

FailedRoleWrite ==
    \E k \in DOMAIN log : log[k].op \in {"create_role", "edit_role"} /\ ~log[k].ok

RolePhaseOver == pc \notin {"start", "wait", "roles", "positions", "delete"}

\* C25: if a role create or a role property edit of the run failed, no role
\* is deleted in that run (and none repositioned); the role phase ends with
\* that one failure counted as an error and the run goes on with the
\* categories.
C25_DeletionNeedsCleanRolePhase ==
    FailedRoleWrite
    => /\ \A k \in DOMAIN log :
             log[k].op \notin {"delete_role", "edit_role_positions"}
       /\ Cardinality({k \in DOMAIN log :
             log[k].op \in {"create_role", "edit_role"} /\ ~log[k].ok}) = 1
       /\ results.roles_deleted = 0
       /\ results.errors >= 1
       /\ (\A k \in DOMAIN log : ~log[k].ok => ClassOf(log[k].op) = 1)
             => results.errors = 1
       /\ pc \notin {"roles", "positions", "delete", "raised"}

\* a role write failed in a target that holds a role the document does not
\* name; the run went through the later phases and the role is still there
C25_Witness ==
    /\ Completed
    /\ FailedRoleWrite
    /\ roles_to_delete(guild0, doc) # << >>
    /\ roles_to_delete(guild, doc) # << >>
    /\ \E k \in DOMAIN log : ClassOf(log[k].op) > 1

\* the number of successful calls of kind op in the run
Succeeded(op) == Cardinality({k \in DOMAIN log : log[k].op = op /\ log[k].ok})

\* C26: at the end of an apply run each counter equals the number of successful calls of its kind;
\* channel_updates counts the property edits issued on existing channels
\* that succeeded.
C26_CountersCountSuccesses ==
    Completed =>
    /\ results.roles_created = Succeeded("create_role")
    /\ results.roles_updated = Succeeded("edit_role")
    /\ results.roles_deleted = Succeeded("delete_role")
    /\ results.categories_created = Succeeded("create_category")
    /\ results.channels_created = Succeeded("create_channel")
    /\ results.channel_updates = Succeeded("edit_channel")

\* the counters but channel_updates
C26_OtherCounters ==
    Completed =>
    /\ results.roles_created = Succeeded("create_role")
    /\ results.roles_updated = Succeeded("edit_role")
    /\ results.roles_deleted = Succeeded("delete_role")
    /\ results.categories_created = Succeeded("create_category")
    /\ results.channels_created = Succeeded("create_channel")

====
